---- MODULE Spec2Model ----
(***************************************************************************)
(* Streaming-adapter core of chatanyllm: the chat client router            *)
(* (services/chat/chatClient), the OpenAI-compatible, Anthropic and Gemini *)
(* adapters and the transport they read from.  One session is one call of  *)
(* the router's sendStreamingMessage.                                      *)
(*                                                                         *)
(* The response body is a sequence of symbols: a symbol is the text of one *)
(* SSE line ("data: <payload>", not containing a newline) or a newline.    *)
(* The transport hands the body over in chunks of pieces; a piece is a     *)
(* line text followed, or not, by its newline, so that a chunk boundary    *)
(* can fall before the newline of a line.  Text passed to callbacks is a   *)
(* sequence of text pieces <<tag, n>>: the text carried by frame number n. *)
(***************************************************************************)
EXTENDS Integers, Sequences, FiniteSets, TLC

\* Bounds of the model.
MaxFrames == 4
MaxChunk == 2
MaxOdd == 1

VARIABLES
  pc,          \* the await the session is at: init, fetch, errbody, read, settled
  adapter,     \* adapter the router selected ("none" before routing)
  rcb,         \* onReasoningChunk / onReasoningComplete reach the adapter
  aborted,     \* abortSignal.aborted
  status,      \* response.status (0: no response yet)
  buffer,      \* let buffer: the retained incomplete line
  loc,         \* the adapter's locals: fullContent, fullReasoning, reasoningDone,
               \* completeCalled, currentBlockType
  calls,       \* callbacks invoked so far, in order
  outcome,     \* the promise returned by the router: pending, resolved, rejected
  sent,        \* pieces the transport has delivered
  posts,       \* fetch calls issued
  odd,         \* irregular pieces delivered: noise payloads and texts without newline
  shape,       \* form of the body delivered so far (history): "contents" for
               \* newline-terminated content-delta frames only, "finished" for
               \* those followed by one finish frame, "corrupt" for content
               \* frames with one line that is not JSON among them, "error" for
               \* content frames followed by an in-band error payload, "error+"
               \* when more pieces follow that payload, "other"
  endPath,     \* how the session ended (history)
  dec,         \* the frame decoder on its own: the payload, the bytes still to
               \* deliver, the bytes the TextDecoder holds back, the lines split
               \* off, the number of chunks delivered
  ses,         \* two sessions side by side: per session its adapter, position,
               \* buffer, locals, callbacks invoked and chunks received
  fed,         \* an adapter fed line by line: the payloads of the lines so far
  req,         \* the Gemini request: the message list and the contents built
  url,         \* the custom provider's base URL: as configured and as passed on
  ui           \* the conversation context of the window: one conversation's
               \* last message in state, in conversationsRef and in storage,
               \* the refs of ConversationContext and the handlers in flight

vars == <<pc, adapter, rcb, aborted, status, buffer, loc, calls, outcome,
          sent, posts, odd, shape, endPath, dec, ses, fed, req, url, ui>>

\* The variables of the decoder on its own, of the pair of sessions, of the
\* line-by-line feed, of the request shaping and of the conversation context.
aux == <<dec, ses, fed, req, url, ui>>

NoDec == [whole |-> <<>>, rest |-> <<>>, pending |-> <<>>, lines |-> <<>>, chunks |-> 0]

NoSes == <<>>

NoFed == <<>>

NoReq == [messages |-> <<>>, contents |-> <<>>, built |-> FALSE]

NoUrl == [given |-> <<>>, baseUrl |-> <<>>, done |-> FALSE]

NoUi == <<>>

Adapters == {"openai", "anthropic", "gemini"}

\* Payloads a data: line can carry, per adapter.
Kinds(ad) ==
  CASE ad = "openai" -> {"r", "c", "img", "fin", "DONE", "bad", "err"}
    [] ad = "anthropic" -> {"start_thinking", "start_text", "delta", "stop", "error", "noop", "bad"}
    [] ad = "gemini" -> {"thought", "text", "finish", "err", "bad"}
    [] OTHER -> {}

NL == [k |-> "NL", n |-> 0]

\* Noise: payloads that carry no delta and open or close no block.
NoiseKinds(ad) ==
  CASE ad = "openai" -> {"fin", "DONE", "bad", "err"}
    [] ad = "anthropic" -> {"error", "noop", "bad"}
    [] ad = "gemini" -> {"finish", "err", "bad"}
    [] OTHER -> {}

\* A piece: the text of a line (k = "" for no text) and whether its newline follows.
Pieces(ad) == {[k |-> k, nl |-> b] : k \in Kinds(ad), b \in BOOLEAN} \cup {[k |-> "", nl |-> TRUE]}

Min(a, b) == IF a < b THEN a ELSE b

\* The irregular pieces of a chunk: noise payloads, and line texts whose newline
\* does not follow.
CountOdd(ad, chunk) ==
  Cardinality({i \in DOMAIN chunk : chunk[i].k \in NoiseKinds(ad)})
  + Cardinality({i \in DOMAIN chunk : ~chunk[i].nl})

\* The chunks the transport can deliver next, within the bounds of the model.
Chunks(ad, room, oddRoom) ==
  {ch \in UNION {[1..n -> Pieces(ad)] : n \in 1..Min(MaxChunk, room)} : CountOdd(ad, ch) <= oddRoom}

\* The payload that is a content delta, and the payloads that are a finish frame
\* (finish_reason or [DONE]; message_stop; finishReason).
ContentKind(ad) == CASE ad = "openai" -> "c" [] ad = "anthropic" -> "delta" [] ad = "gemini" -> "text"

FinishKinds(ad) ==
  CASE ad = "openai" -> {"fin", "DONE"} [] ad = "anthropic" -> {"noop"} [] ad = "gemini" -> {"finish"}

\* The payload that reports an error in band.
ErrorKind(ad) == CASE ad = "openai" -> "err" [] ad = "anthropic" -> "error" [] ad = "gemini" -> "err"

RECURSIVE ShapeAfter(_, _, _)
ShapeAfter(ad, sh, chunk) ==
  IF chunk = <<>> THEN sh
  ELSE LET p == Head(chunk)
           nx == IF sh = "contents" /\ p.k = ContentKind(ad) /\ p.nl THEN "contents"
                 ELSE IF sh = "contents" /\ p.k \in FinishKinds(ad) THEN "finished"
                 ELSE IF sh = "contents" /\ p.k = "bad" /\ p.nl THEN "corrupt"
                 ELSE IF sh = "corrupt" /\ p.k = ContentKind(ad) /\ p.nl THEN "corrupt"
                 ELSE IF sh = "contents" /\ p.k = ErrorKind(ad) /\ p.nl THEN "error"
                 ELSE IF sh \in {"error", "error+"} THEN "error+"
                 ELSE "other"
       IN ShapeAfter(ad, nx, Tail(chunk))

\* decoder.decode(value): the symbols of a chunk whose first piece is piece number base + 1.
RECURSIVE Decode(_, _)
Decode(chunk, base) ==
  IF chunk = <<>> THEN <<>>
  ELSE LET p == Head(chunk) IN
       (IF p.k = "" THEN <<>> ELSE <<[k |-> p.k, n |-> base + 1]>>)
       \o (IF p.nl THEN <<NL>> ELSE <<>>)
       \o Decode(Tail(chunk), base + 1)

\* text.split('\n'): always at least one segment.
RECURSIVE Split(_)
Split(text) ==
  IF text = <<>> THEN << <<>> >>
  ELSE LET rest == Split(Tail(text)) IN
       IF Head(text) = NL THEN << <<>> >> \o rest
       ELSE << <<Head(text)>> \o Head(rest) >> \o Tail(rest)

\* Variant of SplitLines: the trailing fragment is not retained.
SplitLines_DropFragment(text) ==
  LET segs == Split(text) IN
  [lines |-> SubSeq(segs, 1, Len(segs) - 1), buffer |-> <<>>]

\* const lines = buffer.split('\n'); buffer = lines.pop() || ''
SplitLines(text) ==
  LET segs == Split(text) IN
  [lines |-> SubSeq(segs, 1, Len(segs) - 1), buffer |-> segs[Len(segs)]]

\* The payload of a trimmed line: an empty line is skipped; a line made of one
\* line text carries that payload; two line texts run together
\* ("data: {..}data: {..}") still start with "data: " and do not parse as JSON.
PayloadOf(line) ==
  IF line = <<>> THEN "empty"
  ELSE IF Len(line) = 1 THEN line[1].k
  ELSE "bad"

FrameNo(line) == IF line = <<>> THEN 0 ELSE line[1].n

Cb(name, d, acc, msg) == [cb |-> name, d |-> d, acc |-> acc, msg |-> msg]

InitLoc == [fullContent |-> <<>>, fullReasoning |-> <<>>, reasoningDone |-> FALSE,
            completeCalled |-> FALSE, currentBlockType |-> "null"]

NoError == [name |-> "", message |-> ""]

Res(l, c, ctl) == [loc |-> l, calls |-> c, ctl |-> ctl]

RC == Cb("onReasoningComplete", <<>>, <<>>, "")

\* fullReasoning += text; onReasoningChunk(text, fullReasoning)
EmitReasoning(l, c, n) ==
  LET t == << <<"r", n>> >>
      fr == l.fullReasoning \o t
  IN Res([l EXCEPT !.fullReasoning = fr], Append(c, Cb("onReasoningChunk", t, fr, "")), "next")

\* if (fullReasoning && !reasoningDone && onReasoningComplete) { onReasoningComplete();
\* reasoningDone = true }
CloseReasoning(l, c, cb) ==
  IF l.fullReasoning # <<>> /\ ~l.reasoningDone /\ cb
  THEN Res([l EXCEPT !.reasoningDone = TRUE], Append(c, RC), "next")
  ELSE Res(l, c, "next")

\* Variant of EmitContent: the accumulated text is overwritten, not appended to.
EmitContent_Overwrite(l, c, tag, n) ==
  LET t == << <<tag, n>> >>
  IN Res([l EXCEPT !.fullContent = t], Append(c, Cb("onChunk", t, t, "")), "next")

\* fullContent += text; onChunk(text, fullContent)
EmitContent(l, c, tag, n) ==
  LET t == << <<tag, n>> >>
      fc == l.fullContent \o t
  IN Res([l EXCEPT !.fullContent = fc], Append(c, Cb("onChunk", t, fc, "")), "next")

\* Variant of ParseFailure: a line that is not JSON is reported and ends the session.
ParseFailure_Fatal(l, c) ==
  Res(l, Append(c, Cb("onError", <<>>, <<>>, "Invalid response from API")), "return")

\* JSON.parse throws inside the loop's try: catch (parseError) and go on to the next line.
ParseFailure(l, c) == Res(l, c, "next")

\* Variant of DoneFrame: [DONE] fires onComplete and leaves completeCalled alone.
DoneFrame_Complete(l, c) == Res(l, Append(c, Cb("onComplete", <<>>, l.fullContent, "")), "next")

\* if (data === '[DONE]') continue
DoneFrame(l, c) == Res(l, c, "next")

\* Variant of OpenAIFrame: the image markers of a frame are appended before its text.
OpenAIFrame_ImagesFirst(l, c, k, n, cb) ==
  CASE k = "r" -> IF cb THEN EmitReasoning(l, c, n) ELSE Res(l, c, "next")
    [] k = "c" -> LET x == CloseReasoning(l, c, cb) IN EmitContent(x.loc, x.calls, "c", n)
    [] k = "img" -> EmitContent(l, c, "img", n)
    [] k = "cimg" ->
         LET x == CloseReasoning(l, c, cb)
             y1 == EmitContent(x.loc, x.calls, "img1", n)
             y3 == EmitContent(y1.loc, y1.calls, "img3", n)
             y4 == EmitContent(y3.loc, y3.calls, "img4", n)
         IN EmitContent(y4.loc, y4.calls, "c", n)
    [] k = "fin" -> Res(l, c, "break")
    [] k = "DONE" -> DoneFrame(l, c)
    [] k = "bad" -> ParseFailure(l, c)
    [] OTHER -> Res(l, c, "next")

\* OpenAI-compatible adapter, the body of the for loop for one data: line.
\*   r: delta.reasoning, c: delta.content, img: delta.images with one image,
\*   cimg: delta.content, delta.images with three entries (the first with
\*   image_url.url, the second without a url, the third with url) and
\*   message.images with one entry,
\*   fin: finish_reason, DONE: [DONE], bad: not JSON, err: {error: {...}}
OpenAIFrame(l, c, k, n, cb) ==
  CASE k = "r" -> IF cb THEN EmitReasoning(l, c, n) ELSE Res(l, c, "next")
    [] k = "c" -> LET x == CloseReasoning(l, c, cb) IN EmitContent(x.loc, x.calls, "c", n)
    [] k = "img" -> EmitContent(l, c, "img", n)
    [] k = "cimg" ->
         LET x == CloseReasoning(l, c, cb)
             y0 == EmitContent(x.loc, x.calls, "c", n)
             y1 == EmitContent(y0.loc, y0.calls, "img1", n)
             y3 == EmitContent(y1.loc, y1.calls, "img3", n)
         IN EmitContent(y3.loc, y3.calls, "img4", n)
    [] k = "fin" -> Res(l, c, "break")
    [] k = "DONE" -> DoneFrame(l, c)
    [] k = "bad" -> ParseFailure(l, c)
    [] OTHER -> Res(l, c, "next")

\* Variant of ErrorFrame: onError, then break out of the for loop only.
ErrorFrame_Break(l, c) == Res(l, Append(c, Cb("onError", <<>>, <<>>, "provider error")), "break")

\* Variant of ErrorFrame: onError without the return.
ErrorFrame_NoReturn(l, c) == Res(l, Append(c, Cb("onError", <<>>, <<>>, "provider error")), "next")

\* case 'error': onError(new Error(parsed.error?.message || ...)); return
ErrorFrame(l, c) == Res(l, Append(c, Cb("onError", <<>>, <<>>, "provider error")), "return")

\* Variant of AnthropicFrame: a text_delta is content whatever block is open.
AnthropicFrame_IgnoreBlock(l, c, k, n, cb) ==
  CASE k = "start_thinking" -> Res([l EXCEPT !.currentBlockType = "thinking"], c, "next")
    [] k = "start_text" -> Res([l EXCEPT !.currentBlockType = "text"], c, "next")
    [] k = "delta" -> LET x == CloseReasoning(l, c, cb) IN EmitContent(x.loc, x.calls, "c", n)
    [] k = "stop" ->
         LET x == IF l.currentBlockType = "thinking" THEN CloseReasoning(l, c, cb)
                  ELSE Res(l, c, "next")
         IN Res([x.loc EXCEPT !.currentBlockType = "null"], x.calls, "next")
    [] k = "error" -> ErrorFrame(l, c)
    [] k = "bad" -> ParseFailure(l, c)
    [] OTHER -> Res(l, c, "next")

\* Anthropic adapter, the switch on parsed.type for one data: line.
\*   start_thinking / start_text: content_block_start, delta: content_block_delta
\*   with a text_delta, stop: content_block_stop, error: type 'error',
\*   noop: message_start, message_delta, message_stop, ping, bad: not JSON
AnthropicFrame(l, c, k, n, cb) ==
  CASE k = "start_thinking" -> Res([l EXCEPT !.currentBlockType = "thinking"], c, "next")
    [] k = "start_text" -> Res([l EXCEPT !.currentBlockType = "text"], c, "next")
    [] k = "delta" ->
         IF l.currentBlockType = "thinking" /\ cb THEN EmitReasoning(l, c, n)
         ELSE LET x == CloseReasoning(l, c, cb) IN EmitContent(x.loc, x.calls, "c", n)
    [] k = "stop" ->
         LET x == IF l.currentBlockType = "thinking" THEN CloseReasoning(l, c, cb)
                  ELSE Res(l, c, "next")
         IN Res([x.loc EXCEPT !.currentBlockType = "null"], x.calls, "next")
    [] k = "error" -> ErrorFrame(l, c)
    [] k = "bad" -> ParseFailure(l, c)
    [] OTHER -> Res(l, c, "next")

\* Gemini adapter, the body of the for loop for one data: line.
\*   thought: one part with a thought field, text: one part with text,
\*   finish: finishReason other than STOP, err: {error: {...}}, bad: not JSON
GeminiFrame(l, c, k, n, cb) ==
  CASE k = "thought" -> IF cb THEN EmitReasoning(l, c, n) ELSE Res(l, c, "next")
    [] k = "text" -> LET x == CloseReasoning(l, c, cb) IN EmitContent(x.loc, x.calls, "c", n)
    [] k = "finish" -> Res(l, c, "next")
    [] k = "err" -> Res(l, c, "next")
    [] k = "bad" -> ParseFailure(l, c)
    [] OTHER -> Res(l, c, "next")

\* Variant of Frame: a finish frame fires onComplete.
Frame_FinishCompletes(ad, l, c, k, n, cb) ==
  IF k = "empty" THEN Res(l, c, "next")
  ELSE IF k \in FinishKinds(ad)
  THEN Res([l EXCEPT !.completeCalled = TRUE],
           Append(c, Cb("onComplete", <<>>, l.fullContent, "")), "next")
  ELSE CASE ad = "openai" -> OpenAIFrame(l, c, k, n, cb)
         [] ad = "anthropic" -> AnthropicFrame(l, c, k, n, cb)
         [] ad = "gemini" -> GeminiFrame(l, c, k, n, cb)

\* The loop body for one trimmed line, by adapter.
Frame(ad, l, c, k, n, cb) ==
  IF k = "empty" THEN Res(l, c, "next")
  ELSE CASE ad = "openai" -> OpenAIFrame(l, c, k, n, cb)
         [] ad = "anthropic" -> AnthropicFrame(l, c, k, n, cb)
         [] ad = "gemini" -> GeminiFrame(l, c, k, n, cb)

\* The for loop over the complete lines of a chunk, from line number i on.  ctl:
\* "next" when the loop ran to its end or left by break, "return" when the
\* function returned.  fired: the numbers of the lines that invoked a callback
\* other than onError.
RECURSIVE RunLines(_, _, _, _, _, _)
RunLines(ad, ls, l, c, cb, i) ==
  IF ls = <<>> THEN [loc |-> l, calls |-> c, ctl |-> "next", fired |-> {}]
  ELSE LET x == Frame(ad, l, c, PayloadOf(Head(ls)), FrameNo(Head(ls)), cb)
           here == IF x.calls # c THEN {i} ELSE {}
       IN IF x.ctl = "next"
          THEN LET rest == RunLines(ad, Tail(ls), x.loc, x.calls, cb, i + 1)
               IN [rest EXCEPT !.fired = rest.fired \cup here]
          ELSE [loc |-> x.loc, calls |-> x.calls,
                ctl |-> IF x.ctl = "break" THEN "next" ELSE x.ctl,
                fired |-> IF x.ctl = "return" THEN {} ELSE here]

\* Variant of Finalize: onComplete is called before reasoning is finalized.
Finalize_CompleteFirst(l, c, cb) ==
  LET c1 == IF ~l.completeCalled THEN Append(c, Cb("onComplete", <<>>, l.fullContent, "")) ELSE c
      c2 == IF l.fullReasoning # <<>> /\ ~l.reasoningDone /\ cb THEN Append(c1, RC) ELSE c1
  IN [loc |-> [l EXCEPT !.completeCalled = TRUE], calls |-> c2, thrown |-> NoError]

\* Variant of Finalize: reasoning is not finalized after the loop.
Finalize_NoReasoning(l, c, cb) ==
  IF ~l.completeCalled
  THEN [loc |-> [l EXCEPT !.completeCalled = TRUE],
        calls |-> Append(c, Cb("onComplete", <<>>, l.fullContent, "")),
        thrown |-> NoError]
  ELSE [loc |-> l, calls |-> c, thrown |-> NoError]

\* After the while loop: finalize reasoning, then onComplete once.
Finalize(l, c, cb) ==
  LET c1 == IF l.fullReasoning # <<>> /\ ~l.reasoningDone /\ cb THEN Append(c, RC) ELSE c
  IN IF ~l.completeCalled
     THEN [loc |-> [l EXCEPT !.completeCalled = TRUE],
           calls |-> Append(c1, Cb("onComplete", <<>>, l.fullContent, "")),
           thrown |-> NoError]
     ELSE [loc |-> l, calls |-> c1, thrown |-> NoError]

\* The message of the wrapped error the adapter's catch block reports.
WrapMessage(err) ==
  IF err.name = "TypeError" /\ err.message = "Failed to fetch" THEN "Network error: Unable to connect"
  ELSE IF err.name = "SyntaxError" THEN "Invalid response from API"
  ELSE IF err.message = "" THEN "An unexpected error occurred"
  ELSE err.message

\* Variant of AdapterCatch: the abort branch does not look at reasoningDone.
AdapterCatch_NoDoneCheck(err, l, c, cb) ==
  IF err.name = "AbortError"
  THEN LET c1 == IF l.fullReasoning # <<>> /\ cb
                 THEN <<Cb("onReasoningChunk", <<>>, l.fullReasoning, ""), RC>>
                 ELSE <<>>
       IN [loc |-> [l EXCEPT !.completeCalled = TRUE],
           calls |-> Append(c \o c1, Cb("onComplete", <<>>, l.fullContent, "")),
           thrown |-> NoError]
  ELSE [loc |-> l, calls |-> Append(c, Cb("onError", <<>>, <<>>, WrapMessage(err))),
        thrown |-> NoError]

\* The adapter's catch block.
AdapterCatch(err, l, c, cb) ==
  IF err.name = "AbortError"
  THEN LET c1 == IF l.fullReasoning # <<>> /\ ~l.reasoningDone
                 THEN (IF cb THEN <<Cb("onReasoningChunk", <<>>, l.fullReasoning, ""), RC>>
                       ELSE <<>>)
                 ELSE <<>>
           c2 == c \o c1
       IN IF ~l.completeCalled
          THEN [loc |-> [l EXCEPT !.completeCalled = TRUE],
                calls |-> Append(c2, Cb("onComplete", <<>>, l.fullContent, "")),
                thrown |-> NoError]
          ELSE [loc |-> l, calls |-> c2, thrown |-> NoError]
  ELSE [loc |-> l, calls |-> Append(c, Cb("onError", <<>>, <<>>, WrapMessage(err))),
        thrown |-> NoError]

\* Variant of RouterCatch: the error is thrown on to the caller.
RouterCatch_Rethrow(err, c) == [calls |-> c, outcome |-> "rejected"]

\* The router's catch block (the inner catch blocks rethrow into it).
RouterCatch(err, c) ==
  LET m == IF err.name = "TypeError" THEN "Configuration error"
           ELSE IF err.message = "" THEN "An unexpected error occurred while sending the message"
           ELSE err.message
  IN [calls |-> Append(c, Cb("onError", <<>>, <<>>, m)), outcome |-> "resolved"]

\* return await adapter.sendStreamingMessage(...) inside the router's try.
RouterReturn(c, thrown) ==
  IF thrown = NoError THEN [calls |-> c, outcome |-> "resolved"] ELSE RouterCatch(thrown, c)

\* Inputs of a call of the router.
ProviderIds == {"openai", "openrouter", "gemini", "anthropic", "custom", "other"}
ApiKeys == {"missing", "nonstring", "ok"}
Models == {"missing", "ok"}
MessageLists == {"missing", "empty", "nonarray", "ok"}
\* providerConfig: none, apiBaseUrl a URL, apiBaseUrl "/" (normalises to ''),
\* apiBaseUrl truthy but not a string (no trim method).
Configs == {"none", "url", "slash", "nonstring"}

\* config/providers getProviderById: the catalog lists openrouter, openai and gemini.
GetProviderById(id) == IF id \in {"openrouter", "openai", "gemini"} THEN "url" ELSE "none"

\* Variant of RouterValidate: the model is checked before the key.
RouterValidate_ModelFirst(apiKey, model, messages) ==
  IF model = "missing" THEN "Model is required"
  ELSE IF apiKey = "missing" THEN "API key is required"
  ELSE IF messages \in {"missing", "empty"} THEN "Messages are required"
  ELSE ""

\* The router's input checks: the message of the first failing one, "" when all pass.
RouterValidate(apiKey, model, messages) ==
  IF apiKey = "missing" THEN "API key is required"
  ELSE IF model = "missing" THEN "Model is required"
  ELSE IF messages \in {"missing", "empty"} THEN "Messages are required"
  ELSE ""

\* Variant of Route: an id the switch does not know falls back to the OpenAI adapter.
Route_FallBackToOpenAI(providerId, cfg) ==
  CASE providerId = "gemini" -> [kind |-> "adapter", adapter |-> "gemini", baseUrl |-> "url"]
    [] providerId = "anthropic" -> [kind |-> "adapter", adapter |-> "anthropic", baseUrl |-> "url"]
    [] OTHER ->
         IF cfg = "nonstring" THEN [kind |-> "throw", adapter |-> "none", baseUrl |-> ""]
         ELSE [kind |-> "adapter", adapter |-> "openai", baseUrl |-> IF cfg = "slash" THEN "" ELSE "url"]

\* The router's switch: the adapter and base URL, an unknown provider, or a throw.
Route(providerId, cfg) ==
  CASE providerId \in {"openai", "openrouter"} -> [kind |-> "adapter", adapter |-> "openai", baseUrl |-> "url"]
    [] providerId = "gemini" -> [kind |-> "adapter", adapter |-> "gemini", baseUrl |-> "url"]
    [] providerId = "anthropic" -> [kind |-> "adapter", adapter |-> "anthropic", baseUrl |-> "url"]
    [] OTHER ->
         IF cfg = "nonstring" THEN [kind |-> "throw", adapter |-> "none", baseUrl |-> ""]
         ELSE IF cfg # "none"
         THEN [kind |-> "adapter", adapter |-> "openai", baseUrl |-> IF cfg = "slash" THEN "" ELSE "url"]
         ELSE IF GetProviderById(providerId) # "none"
         THEN [kind |-> "adapter", adapter |-> "openai", baseUrl |-> "url"]
         ELSE [kind |-> "unknown", adapter |-> "none", baseUrl |-> ""]

\* The adapter's checks before fetch: the error thrown, or NoError.
AdapterValidate(ad, baseUrl, apiKey, model, messages) ==
  IF apiKey # "ok" THEN [name |-> "Error", message |-> "Invalid API key"]
  ELSE IF model # "ok" THEN [name |-> "Error", message |-> "Invalid model"]
  ELSE IF messages # "ok" THEN [name |-> "Error", message |-> "Messages must be a non-empty array"]
  ELSE IF ad = "openai" /\ baseUrl = "" THEN [name |-> "Error", message |-> "Invalid base URL"]
  ELSE NoError

\* The session ends: the adapter returns (or throws) into the router, which settles
\* the promise.
Settle(l, c, thrown, path) ==
  LET r == RouterReturn(c, thrown) IN
  /\ pc' = "settled"
  /\ loc' = l
  /\ calls' = r.calls
  /\ outcome' = r.outcome
  /\ endPath' = path

Init ==
  /\ pc = "init" /\ adapter = "none" /\ rcb = FALSE /\ aborted = FALSE /\ status = 0
  /\ buffer = <<>> /\ loc = InitLoc /\ calls = <<>>
  /\ outcome = "pending" /\ sent = 0 /\ posts = 0
  /\ odd = 0 /\ shape = "contents" /\ endPath = "none"
  /\ dec = NoDec /\ ses = NoSes /\ fed = NoFed /\ req = NoReq /\ url = NoUrl
  /\ ui = NoUi

\* The router's sendStreamingMessage up to the first await: validation, the switch,
\* the adapter's validation and the fetch call.  cbs: the caller passes
\* onReasoningChunk and onReasoningComplete (testConnection passes neither).
Call(providerId, apiKey, model, messages, cfg, cbs) ==
  /\ pc = "init"
  /\ LET invalid == RouterValidate(apiKey, model, messages)
         r == Route(providerId, cfg)
         \* the gemini case of the switch passes no reasoning callbacks on
         cb == cbs /\ r.adapter # "gemini"
         bad == AdapterValidate(r.adapter, r.baseUrl, apiKey, model, messages)
     IN IF invalid # ""
        THEN /\ pc' = "settled" /\ outcome' = "resolved" /\ endPath' = "validation"
             /\ calls' = Append(calls, Cb("onError", <<>>, <<>>, invalid))
             /\ UNCHANGED <<adapter, rcb, loc, posts>>
        ELSE IF r.kind = "unknown"
        THEN /\ pc' = "settled" /\ outcome' = "resolved" /\ endPath' = "unknown_provider"
             /\ calls' = Append(calls, Cb("onError", <<>>, <<>>, "Unknown provider"))
             /\ UNCHANGED <<adapter, rcb, loc, posts>>
        ELSE IF r.kind = "throw"
        THEN /\ Settle(loc, calls, [name |-> "TypeError", message |-> "trim is not a function"],
                       "router_catch")
             /\ UNCHANGED <<adapter, rcb, posts>>
        ELSE IF bad # NoError
        THEN /\ LET a == AdapterCatch(bad, loc, calls, cb) IN
                Settle(a.loc, a.calls, a.thrown, "adapter_validation")
             /\ adapter' = r.adapter /\ rcb' = cb
             /\ UNCHANGED posts
        ELSE /\ pc' = "fetch" /\ adapter' = r.adapter /\ rcb' = cb /\ posts' = posts + 1
             /\ UNCHANGED <<loc, calls, outcome, endPath>>
  /\ UNCHANGED <<aborted, status, buffer, sent, odd, shape>>
  /\ UNCHANGED aux

\* The user (or a timer) aborts while the session awaits the transport.
Abort ==
  /\ pc \in {"fetch", "errbody", "read"}
  /\ ~aborted
  /\ aborted' = TRUE
  /\ UNCHANGED <<pc, adapter, rcb, status, buffer, loc, calls, outcome, sent, posts,
                 odd, shape, endPath>>
  /\ UNCHANGED aux

\* await fetch rejects: with an AbortError once the signal is aborted, else with
\* the TypeError of a network failure.
FetchReject ==
  /\ pc = "fetch"
  /\ LET err == IF aborted THEN [name |-> "AbortError", message |-> "The user aborted a request."]
                ELSE [name |-> "TypeError", message |-> "Failed to fetch"]
         a == AdapterCatch(err, loc, calls, rcb)
     IN Settle(a.loc, a.calls, a.thrown, IF aborted THEN "fetch_abort" ELSE "fetch_fail")
  /\ UNCHANGED <<adapter, rcb, aborted, status, buffer, sent, posts, odd, shape>>
  /\ UNCHANGED aux

Statuses == {200, 400, 401, 403, 404, 429, 500}

\* Variant of LoopTop: the loop does not look at the abort signal.
LoopTop_NoAbortCheck(l, c, ab) ==
  /\ pc' = "read" /\ loc' = l /\ calls' = c
  /\ UNCHANGED <<outcome, endPath>>

\* The top of the while loop: break when aborted, else await reader.read().
LoopTop(l, c, ab) ==
  IF ab
  THEN LET f == Finalize(l, c, rcb) IN Settle(f.loc, f.calls, f.thrown, "abort_check")
  ELSE /\ pc' = "read" /\ loc' = l /\ calls' = c
       /\ UNCHANGED <<outcome, endPath>>

\* await fetch resolves with a response; hasBody: response.body is a stream.
FetchResolve(st, hasBody) ==
  /\ pc = "fetch"
  /\ ~aborted
  /\ status' = st
  /\ IF st # 200
     THEN /\ pc' = "errbody"
          /\ UNCHANGED <<loc, calls, outcome, endPath>>
     ELSE IF ~hasBody
     THEN LET a == AdapterCatch([name |-> "TypeError", message |-> "Cannot read properties of null"],
                                loc, calls, rcb)
          IN Settle(a.loc, a.calls, a.thrown, "no_body")
     ELSE LoopTop(loc, calls, aborted)
  /\ UNCHANGED <<adapter, rcb, aborted, buffer, sent, posts, odd, shape>>
  /\ UNCHANGED aux

\* The message chosen for a non-2xx status; m: errorData.error?.message ("" when
\* the body gave none), retryAfter: the retry-after header was sent.
StatusMessage(st, m, retryAfter) ==
  IF st = 429 THEN (IF retryAfter THEN "Rate limit exceeded. Please wait" ELSE "Rate limit exceeded.")
  ELSE IF m # "" THEN m
  ELSE IF st = 401 THEN "Invalid API key or unauthorized access."
  ELSE IF st = 403 THEN "Access forbidden. Check your API key permissions."
  ELSE IF st = 404 THEN "Model or endpoint not found."
  ELSE IF st >= 500 THEN "Server error"
  ELSE "HTTP status"

\* Variant of ErrBodySettle: no return after onError, so the session goes on to
\* onComplete.
ErrBodySettle_AlsoComplete(json, retryAfter) ==
  /\ pc = "errbody"
  /\ aborted => json = "none"
  /\ LET m == IF json = "message" THEN "message of the provider" ELSE "" IN
     Settle([loc EXCEPT !.completeCalled = TRUE],
            calls \o <<Cb("onError", <<>>, <<>>, StatusMessage(status, m, retryAfter)),
                       Cb("onComplete", <<>>, loc.fullContent, "")>>,
            NoError, "http_error")
  /\ UNCHANGED <<adapter, rcb, aborted, status, buffer, sent, posts, odd, shape>>
  /\ UNCHANGED aux

\* What response.json().catch(() => ({})) gives: "message" for a JSON body with
\* an error.message, "none" for {} (a JSON body without one, a body that is not
\* JSON, a read the abort interrupts), "null" for the JSON body null.
ErrBodies == {"message", "none", "null"}

\* await response.json().catch(() => ({})) settles, then the status message goes to
\* onError.  On null, errorData.error throws a TypeError (the 429 branch does not
\* read errorData), which the adapter's catch block reports.
ErrBodySettle(json, retryAfter) ==
  /\ pc = "errbody"
  /\ aborted => json = "none"
  /\ IF json = "null" /\ status # 429
     THEN LET a == AdapterCatch([name |-> "TypeError",
                                 message |-> "Cannot read properties of null"],
                                loc, calls, rcb)
          IN Settle(a.loc, a.calls, a.thrown, "http_error")
     ELSE LET m == IF json = "message" THEN "message of the provider" ELSE "" IN
          Settle(loc, Append(calls, Cb("onError", <<>>, <<>>, StatusMessage(status, m, retryAfter))),
                 NoError, "http_error")
  /\ UNCHANGED <<adapter, rcb, aborted, status, buffer, sent, posts, odd, shape>>
  /\ UNCHANGED aux

\* await reader.read() resolves with a chunk: decode it onto the buffer, split off
\* the complete lines, keep the rest, run the for loop over the lines, then the
\* abort check that follows the chunk and the one at the top of the loop.  Once
\* the signal is aborted this is the chunk that was already in flight.
\* raise: a callback invoked for one of the lines aborts the signal (as
\* testConnection's onChunk does).
ReadChunk(chunk, raise) ==
  /\ pc = "read"
  /\ LET sp == SplitLines(buffer \o Decode(chunk, sent))
         r == RunLines(adapter, sp.lines, loc, calls, rcb, 1)
     IN /\ raise => (r.fired # {} /\ ~aborted)
        /\ buffer' = sp.buffer
        /\ aborted' = (aborted \/ raise)
        /\ IF r.ctl = "return"
           THEN Settle(r.loc, r.calls, NoError, "error_frame")
           ELSE LoopTop(r.loc, r.calls, aborted \/ raise)
  /\ sent' = sent + Len(chunk)
  /\ odd' = odd + CountOdd(adapter, chunk)
  /\ shape' = ShapeAfter(adapter, shape, chunk)
  /\ UNCHANGED <<adapter, rcb, status, posts>>
  /\ UNCHANGED aux

\* await reader.read() resolves with done: break, finalize, onComplete.
ReadDone ==
  /\ pc = "read"
  /\ LET f == Finalize(loc, calls, rcb) IN Settle(f.loc, f.calls, f.thrown, "done")
  /\ UNCHANGED <<adapter, rcb, aborted, status, buffer, sent, posts, odd, shape>>
  /\ UNCHANGED aux

\* await reader.read() rejects: with an AbortError once the signal is aborted, else
\* with the TypeError of a broken connection.
ReadReject ==
  /\ pc = "read"
  /\ LET err == IF aborted THEN [name |-> "AbortError", message |-> "The user aborted a request."]
                ELSE [name |-> "TypeError", message |-> "network error"]
         a == AdapterCatch(err, loc, calls, rcb)
     IN Settle(a.loc, a.calls, a.thrown, IF aborted THEN "read_abort" ELSE "read_fail")
  /\ UNCHANGED <<adapter, rcb, aborted, status, buffer, sent, posts, odd, shape>>
  /\ UNCHANGED aux

Next ==
  \/ \E p \in ProviderIds, a \in ApiKeys, m \in Models, ms \in MessageLists, cfg \in Configs,
        cbs \in BOOLEAN : Call(p, a, m, ms, cfg, cbs)
  \/ Abort
  \/ FetchReject
  \/ \E st \in Statuses, b \in BOOLEAN : FetchResolve(st, b)
  \/ \E j \in ErrBodies, ra \in BOOLEAN : ErrBodySettle(j, ra)
  \/ \E chunk \in Chunks(adapter, MaxFrames - sent, MaxOdd - odd),
        raise \in BOOLEAN : ReadChunk(chunk, raise)
  \/ ReadDone
  \/ ReadReject

Spec == Init /\ [][Next]_vars

(***************************************************************************)
(* The frame decoder on its own: a payload of bytes is delivered in chunks *)
(* of any sizes, each chunk is decoded onto the buffer and the complete    *)
(* lines are split off.                                                    *)
(***************************************************************************)
MaxPayload == 4

\* Bytes of a payload: an ASCII byte, the newline byte, the lead byte and the
\* continuation byte of a two-byte UTF-8 sequence.
Bytes == {"a", "LF", "hi", "lo"}

Ch(c) == [k |-> c, n |-> 0]

\* decoder.decode(value, { stream: true }) of a TextDecoder('utf-8'): pend is the
\* incomplete sequence held back from the chunks before.  A lead byte waits for
\* its continuation, across chunks too; a lead byte followed by another byte gives
\* U+FFFD and that byte is decoded again; a stray continuation byte gives U+FFFD.
RECURSIVE Utf8Decode(_, _)
Utf8Decode(pend, bytes) ==
  IF bytes = <<>> THEN [out |-> <<>>, pending |-> pend]
  ELSE LET b == Head(bytes) IN
       IF pend # <<>>
       THEN IF b = "lo"
            THEN LET r == Utf8Decode(<<>>, Tail(bytes))
                 IN [r EXCEPT !.out = <<Ch("e2")>> \o r.out]
            ELSE LET r == Utf8Decode(<<>>, bytes)
                 IN [r EXCEPT !.out = <<Ch("FFFD")>> \o r.out]
       ELSE IF b = "hi" THEN Utf8Decode(<<b>>, Tail(bytes))
       ELSE LET r == Utf8Decode(<<>>, Tail(bytes))
                c == IF b = "LF" THEN NL ELSE IF b = "lo" THEN Ch("FFFD") ELSE Ch("a")
            IN [r EXCEPT !.out = <<c>> \o r.out]

\* The payloads of at most MaxPayload bytes.
Payloads == UNION {[1..n -> Bytes] : n \in 0..MaxPayload}

DecInit ==
  /\ \E w \in Payloads : dec = [whole |-> w, rest |-> w, pending |-> <<>>, lines |-> <<>>,
                              chunks |-> 0]
  /\ pc = "init" /\ adapter = "none" /\ rcb = FALSE /\ aborted = FALSE /\ status = 0
  /\ buffer = <<>> /\ loc = InitLoc /\ calls = <<>>
  /\ outcome = "pending" /\ sent = 0 /\ posts = 0
  /\ odd = 0 /\ shape = "contents" /\ endPath = "none"
  /\ ses = NoSes /\ fed = NoFed /\ req = NoReq /\ url = NoUrl /\ ui = NoUi

\* reader.read() hands over the next n bytes: buffer += decode(value);
\* lines = buffer.split('\n'); buffer = lines.pop() || ''
Feed(n) ==
  /\ n \in 1..Len(dec.rest)
  /\ LET d == Utf8Decode(dec.pending, SubSeq(dec.rest, 1, n))
         sp == SplitLines(buffer \o d.out)
     IN /\ buffer' = sp.buffer
        /\ dec' = [dec EXCEPT !.rest = SubSeq(dec.rest, n + 1, Len(dec.rest)),
                              !.pending = d.pending,
                              !.lines = dec.lines \o sp.lines,
                              !.chunks = dec.chunks + 1]
  /\ UNCHANGED <<pc, adapter, rcb, aborted, status, loc, calls, outcome, sent, posts,
                 odd, shape, endPath, ses, fed, req, url, ui>>

DecNext == \E n \in 1..MaxPayload : Feed(n)

SpecDecoder == DecInit /\ [][DecNext]_vars

(***************************************************************************)
(* Two sessions side by side: two calls of an adapter's                    *)
(* sendStreamingMessage whose reads resolve in any order.  Each call has   *)
(* its own buffer and locals; a step of a call runs the same loop body as  *)
(* the single session above.                                               *)
(***************************************************************************)
PairFrames == 2

Sessions == {1, 2}

\* Payloads of the pieces the two sessions receive.
PairKinds(ad) ==
  CASE ad = "openai" -> {"r", "c"}
    [] ad = "anthropic" -> {"start_thinking", "delta", "stop"}
    [] ad = "gemini" -> {"thought", "text"}

\* A chunk of a session of the pair: one line with its newline, or a content line
\* without its newline.
PairPieces(ad) ==
  {[k |-> k, nl |-> TRUE] : k \in PairKinds(ad)} \cup {[k |-> ContentKind(ad), nl |-> FALSE]}

IdleSession ==
  [pc |-> "idle", adapter |-> "none", buffer |-> <<>>, loc |-> InitLoc, calls |-> <<>>,
   recv |-> <<>>, end |-> "none", overlap |-> FALSE]

\* Variant of Locals: the locals are declared at module level, one copy for all calls.
Locals_ModuleLevel(s, i) == s[1].loc

\* let fullContent, fullReasoning, reasoningDone, completeCalled (and
\* currentBlockType) are declared inside sendStreamingMessage: a call reads its own.
Locals(s, i) == s[i].loc

\* One iteration of the read loop of a call: decode, split, run the lines.
LoopBody(ad, buf, l, c, chunk, base) ==
  LET sp == SplitLines(buf \o Decode(<<chunk>>, base))
      r == RunLines(ad, sp.lines, l, c, TRUE, 1)
  IN [buffer |-> sp.buffer, loc |-> r.loc, calls |-> r.calls]

\* How a call ends: "done" by the finalize step, "abort" by the AbortError handler.
EndOf(l, c, end) ==
  IF end = "done" THEN Finalize(l, c, TRUE)
  ELSE AdapterCatch([name |-> "AbortError", message |-> "The user aborted a request."],
                    l, c, TRUE)

\* The call run alone on the chunks recv: its buffer, locals and callbacks.
RECURSIVE Alone(_, _, _, _, _, _)
Alone(ad, buf, l, c, recv, base) ==
  IF recv = <<>> THEN [buffer |-> buf, loc |-> l, calls |-> c]
  ELSE LET x == LoopBody(ad, buf, l, c, Head(recv), base)
       IN Alone(ad, x.buffer, x.loc, x.calls, Tail(recv), base + 1)

PairInit ==
  /\ ses = [i \in Sessions |-> IdleSession]
  /\ pc = "init" /\ adapter = "none" /\ rcb = FALSE /\ aborted = FALSE /\ status = 0
  /\ buffer = <<>> /\ loc = InitLoc /\ calls = <<>>
  /\ outcome = "pending" /\ sent = 0 /\ posts = 0
  /\ odd = 0 /\ shape = "contents" /\ endPath = "none"
  /\ dec = NoDec /\ fed = NoFed /\ req = NoReq /\ url = NoUrl /\ ui = NoUi

PairRest == <<pc, adapter, rcb, aborted, status, buffer, loc, calls, outcome, sent, posts,
              odd, shape, endPath, dec, fed, req, url, ui>>

\* A call of adapter ad starts and reaches its first reader.read().
PairStart(i, ad) ==
  /\ ses[i].pc = "idle"
  /\ ses' = [ses EXCEPT ![i] = [@ EXCEPT !.pc = "read", !.adapter = ad]]
  /\ UNCHANGED PairRest

\* The pending read of call i resolves with a chunk.
PairChunk(i, chunk) ==
  /\ ses[i].pc = "read"
  /\ Len(ses[i].recv) < PairFrames
  /\ LET x == LoopBody(ses[i].adapter, ses[i].buffer, Locals(ses, i), ses[i].calls, chunk,
                       Len(ses[i].recv))
         mid == \E j \in Sessions \ {i} : ses[j].pc = "read" /\ ses[j].recv # <<>>
     IN ses' = [ses EXCEPT ![i] = [@ EXCEPT !.buffer = x.buffer, !.loc = x.loc,
                                            !.calls = x.calls,
                                            !.recv = Append(@, chunk),
                                            !.overlap = @ \/ mid]]
  /\ UNCHANGED PairRest

\* The pending read of call i resolves with done, or rejects with an AbortError.
PairEnd(i, end) ==
  /\ ses[i].pc = "read"
  /\ LET x == EndOf(Locals(ses, i), ses[i].calls, end)
     IN ses' = [ses EXCEPT ![i] = [@ EXCEPT !.pc = "settled", !.loc = x.loc,
                                            !.calls = x.calls, !.end = end]]
  /\ UNCHANGED PairRest

PairNext ==
  \/ \E i \in Sessions, ad \in Adapters : PairStart(i, ad)
  \/ \E i \in Sessions :
       /\ ses[i].pc = "read"
       /\ \E chunk \in PairPieces(ses[i].adapter) : PairChunk(i, chunk)
  \/ \E i \in Sessions, end \in {"done", "abort"} : PairEnd(i, end)

SpecPair == PairInit /\ [][PairNext]_vars

(***************************************************************************)
(* An adapter fed line by line: every chunk is one complete data: line.    *)
(* The lines run through the same loop body as in the single session; the  *)
(* stream then ends by the reader's done.                                  *)
(***************************************************************************)
MaxLines == 6
MaxImageLines == 3

LineAdapters == {"openai", "anthropic"}

\* The frames fed line by line: for Anthropic the block events, for the
\* OpenAI-compatible adapter the deltas, images among them.
LineKinds(ad) ==
  CASE ad = "anthropic" -> {"start_thinking", "start_text", "delta", "stop", "noop"}
    [] ad = "openai" -> {"r", "c", "img", "cimg", "fin"}

LineBound(ad) == IF ad = "anthropic" THEN MaxLines ELSE MaxImageLines

\* The adapter was called with valid arguments, the response came with status 200
\* and the loop awaits its first read.
LinesInit ==
  /\ \E ad \in LineAdapters, cb \in BOOLEAN : adapter = ad /\ rcb = cb
  /\ pc = "read" /\ aborted = FALSE /\ status = 200
  /\ buffer = <<>> /\ loc = InitLoc /\ calls = <<>>
  /\ outcome = "pending" /\ sent = 0 /\ posts = 1
  /\ odd = 0 /\ shape = "contents" /\ endPath = "none"
  /\ dec = NoDec /\ ses = NoSes /\ fed = NoFed /\ req = NoReq /\ url = NoUrl
  /\ ui = NoUi

\* await reader.read() resolves with a chunk that is the line of payload k and its
\* newline.
FeedLine(k) ==
  /\ pc = "read"
  /\ Len(fed) < LineBound(adapter)
  /\ LET sp == SplitLines(buffer \o Decode(<<[k |-> k, nl |-> TRUE]>>, sent))
         r == RunLines(adapter, sp.lines, loc, calls, rcb, 1)
     IN /\ buffer' = sp.buffer
        /\ IF r.ctl = "return"
           THEN Settle(r.loc, r.calls, NoError, "error_frame")
           ELSE LoopTop(r.loc, r.calls, FALSE)
  /\ sent' = sent + 1
  /\ fed' = Append(fed, k)
  /\ UNCHANGED <<adapter, rcb, aborted, status, posts, odd, shape, dec, ses, req, url, ui>>

LinesNext ==
  \/ \E k \in LineKinds(adapter) : FeedLine(k)
  \/ ReadDone

SpecLines == LinesInit /\ [][LinesNext]_vars

(***************************************************************************)
(* The Gemini adapter's request shaping: the message list of a call is     *)
(* turned into the contents of the request body.  The content of message   *)
(* number i is the text <<T(i)>>.                                          *)
(***************************************************************************)
MaxMessages == 3

Roles == {"system", "user", "assistant", "tool"}

T(i) == <<"m", i>>

\* The blank line put between the system text and the user text ("\n\n").
Blank == <<"blank", 0>>

\* The message lists of a call: non-empty arrays (the adapter throws on others).
MessageSeqs ==
  UNION {{[i \in 1..n |-> [role |-> f[i], content |-> <<T(i)>>]] : f \in [1..n -> Roles]} :
           n \in 1..MaxMessages}

\* messages.filter(m => m.role !== 'system').map(m => ({role: m.role === 'assistant'
\* ? 'model' : 'user', parts: [{text: m.content}]}))
RECURSIVE FilterMap(_)
FilterMap(ms) ==
  IF ms = <<>> THEN <<>>
  ELSE (IF Head(ms).role = "system" THEN <<>>
        ELSE <<[role |-> IF Head(ms).role = "assistant" THEN "model" ELSE "user",
                text |-> Head(ms).content]>>)
       \o FilterMap(Tail(ms))

\* messages.find(m => m.role === 'system'): the index of the first one, 0 for none.
FindSystem(ms) ==
  IF \E i \in DOMAIN ms : ms[i].role = "system"
  THEN CHOOSE i \in DOMAIN ms :
         ms[i].role = "system" /\ \A j \in 1..(i - 1) : ms[j].role # "system"
  ELSE 0

\* The contents of the request: the system message found is prepended to
\* contents[0] when that is a user entry.
GeminiContents(ms) ==
  LET contents == FilterMap(ms)
      sys == FindSystem(ms)
  IN IF sys # 0 /\ Len(contents) > 0 /\ contents[1].role = "user"
     THEN [contents EXCEPT ![1].text = ms[sys].content \o <<Blank>> \o @]
     ELSE contents

RequestInit ==
  /\ \E ms \in MessageSeqs : req = [messages |-> ms, contents |-> <<>>, built |-> FALSE]
  /\ pc = "init" /\ adapter = "gemini" /\ rcb = FALSE /\ aborted = FALSE /\ status = 0
  /\ buffer = <<>> /\ loc = InitLoc /\ calls = <<>>
  /\ outcome = "pending" /\ sent = 0 /\ posts = 0
  /\ odd = 0 /\ shape = "contents" /\ endPath = "none"
  /\ dec = NoDec /\ ses = NoSes /\ fed = NoFed /\ url = NoUrl /\ ui = NoUi

\* The adapter builds the request body and calls fetch.
BuildRequest ==
  /\ pc = "init"
  /\ ~req.built
  /\ req' = [req EXCEPT !.contents = GeminiContents(req.messages), !.built = TRUE]
  /\ pc' = "fetch"
  /\ posts' = posts + 1
  /\ UNCHANGED <<adapter, rcb, aborted, status, buffer, loc, calls, outcome, sent,
                 odd, shape, endPath, dec, ses, fed, url, ui>>

RequestNext == BuildRequest

SpecRequest == RequestInit /\ [][RequestNext]_vars

(***************************************************************************)
(* The router's clean-up of a custom provider's base URL.  A URL is a      *)
(* sequence of pieces: "/" is a slash, "cc" the text chat/completions,     *)
(* "sp" a white-space character, "h" any other text.                       *)
(***************************************************************************)
MaxUrl == 4

UrlPieces == {"h", "/", "cc", "sp"}

\* providerConfig.apiBaseUrl of the custom branch: a non-empty string.
Urls == UNION {[1..n -> UrlPieces] : n \in 1..MaxUrl}

EndsWith(u, suffix) ==
  Len(u) >= Len(suffix) /\ SubSeq(u, Len(u) - Len(suffix) + 1, Len(u)) = suffix

\* String.prototype.trim
RECURSIVE Trim(_)
Trim(u) ==
  IF u = <<>> THEN u
  ELSE IF Head(u) = "sp" THEN Trim(Tail(u))
  ELSE IF u[Len(u)] = "sp" THEN Trim(SubSeq(u, 1, Len(u) - 1))
  ELSE u

\* baseUrl.replace(/\/+$/, '')
RECURSIVE StripSlashes(_)
StripSlashes(u) ==
  IF u # <<>> /\ u[Len(u)] = "/" THEN StripSlashes(SubSeq(u, 1, Len(u) - 1)) ELSE u

\* baseUrl.replace(/\/chat\/completions$/, '')
StripSuffix(u) ==
  IF EndsWith(u, <<"/", "cc">>) THEN SubSeq(u, 1, Len(u) - 2) ELSE u

\* The base URL the router passes to the OpenAI-compatible adapter.
NormalizeBaseUrl(u) == StripSuffix(StripSlashes(Trim(u)))

BaseUrlInit ==
  /\ \E u \in Urls : url = [given |-> u, baseUrl |-> <<>>, done |-> FALSE]
  /\ pc = "init" /\ adapter = "none" /\ rcb = FALSE /\ aborted = FALSE /\ status = 0
  /\ buffer = <<>> /\ loc = InitLoc /\ calls = <<>>
  /\ outcome = "pending" /\ sent = 0 /\ posts = 0
  /\ odd = 0 /\ shape = "contents" /\ endPath = "none"
  /\ dec = NoDec /\ ses = NoSes /\ fed = NoFed /\ req = NoReq /\ ui = NoUi

\* The default branch of the router's switch with a custom configuration: clean
\* the URL up and call the OpenAI-compatible adapter with it.
CleanUpBaseUrl ==
  /\ ~url.done
  /\ url' = [url EXCEPT !.baseUrl = NormalizeBaseUrl(url.given), !.done = TRUE]
  /\ adapter' = "openai"
  /\ UNCHANGED <<pc, rcb, aborted, status, buffer, loc, calls, outcome, sent, posts,
                 odd, shape, endPath, dec, ses, fed, req, ui>>

BaseUrlNext == CleanUpBaseUrl

SpecBaseUrl == BaseUrlInit /\ [][BaseUrlNext]_vars

(***************************************************************************)
(* The conversation context of the window (ConversationContext) with the   *)
(* handlers of ChatWindow and the callbacks of createStreamingCallbacks,    *)
(* for one conversation id.  Of the conversation's messages the last one    *)
(* is kept: its content, reasoning and isReasoningComplete.  A content is   *)
(* <<tag, s, n>>: the text session s has accumulated after n chunks, the    *)
(* error text of session s, the text of a user message, the empty text or   *)
(* the text of an earlier exchange; a reasoning is <<s, m>>.  Timers        *)
(* (throttle, debounce, clearing of the aborted flag, the setTimeout(0) of  *)
(* the update queue) fire in any order.  The component renders, and its     *)
(* effect copies the state into conversationsRef, with every change of the  *)
(* state.                                                                   *)
(***************************************************************************)
MaxSessions == 2
MaxText == 1
MaxReason == 1
MaxQueue == 4
MaxCallbacks == 2

SessionIds == 1..MaxSessions

Text(s, n) == <<"text", s, n>>
ErrorText(s) == <<"Error: ", s, 0>>
UserText(s) == <<"user", s, 0>>
Empty == <<"", 0, 0>>
Earlier == <<"text", 0, 1>>
Reason(s, m) == <<s, m>>
NoReasoning == <<0, 0>>

\* A message: the fields of the last message the callbacks write.
Message(c, r, rc) == [content |-> c, reasoning |-> r, isReasoningComplete |-> rc]

\* metadata of an update: null, or an object that has the keys reasoning and
\* isReasoningComplete (always together) or has neither.
NoMeta == [present |-> FALSE, has |-> FALSE, reasoning |-> NoReasoning,
           isReasoningComplete |-> FALSE]
NewMetadata == [present |-> TRUE, has |-> TRUE, reasoning |-> NoReasoning,
                isReasoningComplete |-> FALSE]

\* An updater handed to queuedSetConversations, by the function that queued it.
Update(op, c, imm, md, r) ==
  [op |-> op, content |-> c, saveImmediately |-> imm, metadata |-> md, reasoning |-> r]

NoThrottle == Update("none", Empty, FALSE, NoMeta, NoReasoning)
NoStored == [present |-> FALSE, last |-> Message(Empty, NoReasoning, FALSE)]
NoOperation == NoStored
IdleHandler == [pc |-> "idle", retry |-> FALSE, n |-> 0, m |-> 0, rdone |-> FALSE]

\* The effect that follows a render: conversationsRef.current = conversations.
SyncRef(u) == [u EXCEPT !.conversationsRef = u.conversations]

queuedSetConversations(u, upd) ==
  [u EXCEPT !.stateUpdateQueue = Append(@, upd)]

isConversationStreaming(u) == u.streamingConversationIds

startStreaming(u, s) ==
  [u EXCEPT !.abortControllers = s, !.streamingConversationIds = TRUE]

stopStreaming_KeepStreaming(u) ==
  LET q == queuedSetConversations(u, Update("cleanup", Empty, FALSE, NoMeta, NoReasoning)) IN
  [q EXCEPT !.abortedConversationIds = TRUE,
            !.signalAborted = [s \in SessionIds |-> @[s] \/ s = u.abortControllers],
            !.abortControllers = 0,
            !.saveOperations = NoOperation,
            !.uiUpdateThrottle = NoThrottle]

stopStreaming(u) ==
  LET q == queuedSetConversations(u, Update("cleanup", Empty, FALSE, NoMeta, NoReasoning)) IN
  [q EXCEPT !.abortedConversationIds = TRUE,
            !.signalAborted = [s \in SessionIds |-> @[s] \/ s = u.abortControllers],
            !.abortControllers = 0,
            !.saveOperations = NoOperation,
            !.uiUpdateThrottle = NoThrottle,
            !.streamingConversationIds = FALSE]

performUIUpdate(u, data) ==
  queuedSetConversations(u, [data EXCEPT !.op = "ui"])

updateLastMessage(u, c, imm, md) ==
  LET data == Update("pending", c, imm, md, NoReasoning) IN
  IF u.abortedConversationIds THEN u
  ELSE IF imm THEN performUIUpdate([u EXCEPT !.uiUpdateThrottle = NoThrottle], data)
  ELSE [u EXCEPT !.uiUpdateThrottle = data]

updateLastMessageReasoning(u, r) ==
  IF u.abortedConversationIds THEN u
  ELSE queuedSetConversations(u, Update("reasoning", Empty, FALSE, NoMeta, r))

markReasoningComplete(u) ==
  IF u.abortedConversationIds THEN u
  ELSE queuedSetConversations(u, Update("markComplete", Empty, FALSE, NoMeta, NoReasoning))

\* conversationStorage.save(updated)
Save(u, msg) == [u EXCEPT !.storage = [present |-> TRUE, last |-> msg]]

\* The updater of performUIUpdate, run on the state.
UIUpdater(u, upd) ==
  LET old == u.conversations.last
      md == upd.metadata
      new == Message(upd.content,
                     IF md.present /\ md.has THEN md.reasoning ELSE old.reasoning,
                     IF md.present /\ md.has THEN md.isReasoningComplete
                     ELSE old.isReasoningComplete)
      v == [u EXCEPT !.conversations.last = new] IN
  IF upd.saveImmediately
  THEN [Save(v, new) EXCEPT !.saveOperations = NoOperation]
  ELSE [v EXCEPT !.saveOperations = [present |-> TRUE, last |-> new]]

ReasoningUpdater(u, upd) ==
  LET new == [u.conversations.last EXCEPT !.reasoning = upd.reasoning] IN
  Save([u EXCEPT !.conversations.last = new], new)

MarkCompleteUpdater(u) ==
  LET new == [u.conversations.last EXCEPT !.isReasoningComplete = TRUE] IN
  Save([u EXCEPT !.conversations.last = new], new)

CleanupUpdater(u) ==
  LET old == u.conversations.last
      new == [old EXCEPT !.isReasoningComplete = TRUE] IN
  IF old.reasoning # NoReasoning /\ ~old.isReasoningComplete
  THEN Save([u EXCEPT !.conversations.last = new], new)
  ELSE u

\* An updater run by setConversations: prev is returned when the conversation
\* is not in the state.
Updater(u, upd) ==
  IF ~u.conversations.present THEN u
  ELSE SyncRef(CASE upd.op = "ui" -> UIUpdater(u, upd)
                 [] upd.op = "reasoning" -> ReasoningUpdater(u, upd)
                 [] upd.op = "markComplete" -> MarkCompleteUpdater(u)
                 [] OTHER -> CleanupUpdater(u))

\* addMessage / replaceMessages: the state is set directly and the updated
\* conversation is saved; nothing happens when the conversation is not found.
addMessage(u, msg) ==
  IF ~u.conversations.present THEN u
  ELSE SyncRef(Save([u EXCEPT !.conversations.last = msg], msg))

\* finalMetadata of onComplete, from the snapshot getConversationById reads.
FinalMetadata(u, s) ==
  LET snap == u.conversationsRef
      md == IF u.handler[s].retry THEN NewMetadata ELSE NoMeta IN
  IF ~snap.present THEN md
  ELSE IF snap.last.reasoning # NoReasoning
       THEN [present |-> TRUE, has |-> TRUE, reasoning |-> snap.last.reasoning,
             isReasoningComplete |-> TRUE]
       ELSE [md EXCEPT !.present = TRUE]

onComplete(u, s) ==
  stopStreaming(updateLastMessage(u, Text(s, u.handler[s].n), TRUE, FinalMetadata(u, s)))

onError(u, s) ==
  stopStreaming(updateLastMessage(u, ErrorText(s), FALSE, NoMeta))

ConvState ==
  [conversations |-> [present |-> TRUE, last |-> Message(Earlier, NoReasoning, FALSE)],
   conversationsRef |-> [present |-> TRUE, last |-> Message(Earlier, NoReasoning, FALSE)],
   storage |-> [present |-> TRUE, last |-> Message(Earlier, NoReasoning, FALSE)],
   stateUpdateQueue |-> <<>>,
   uiUpdateThrottle |-> NoThrottle,
   saveOperations |-> NoOperation,
   abortedConversationIds |-> FALSE,
   abortControllers |-> 0,
   signalAborted |-> [s \in SessionIds |-> FALSE],
   streamingConversationIds |-> FALSE,
   handler |-> [s \in SessionIds |-> IdleHandler],
   deleting |-> "idle"]

ConvInit ==
  /\ ui = ConvState
  /\ pc = "init" /\ adapter = "none" /\ rcb = FALSE /\ aborted = FALSE /\ status = 0
  /\ buffer = <<>> /\ loc = InitLoc /\ calls = <<>>
  /\ outcome = "pending" /\ sent = 0 /\ posts = 0
  /\ odd = 0 /\ shape = "contents" /\ endPath = "none"
  /\ dec = NoDec /\ ses = NoSes /\ fed = NoFed /\ req = NoReq /\ url = NoUrl

ConvRest == <<pc, adapter, rcb, aborted, status, buffer, loc, calls, outcome, sent,
              posts, odd, shape, endPath, dec, ses, fed, req, url>>

\* A handler can be invoked for the conversation while it is the current one;
\* handlers are numbered in the order they are invoked.
CanInvoke(s) ==
  /\ ui.handler[s].pc = "idle"
  /\ \A t \in SessionIds : t < s => ui.handler[t].pc # "idle"
  /\ ui.conversations.present
  /\ ~isConversationStreaming(ui)

At(u, s, p) == [u EXCEPT !.handler[s].pc = p]

\* The update queue has room for k more updaters.
Room(k) == Len(ui.stateUpdateQueue) + k <= MaxQueue

\* The delta callbacks the sessions have invoked so far, and whether the
\* providers have more to stream.
RECURSIVE Streamed(_)
Streamed(s) ==
  IF s = 0 THEN 0
  ELSE ui.handler[s].n + ui.handler[s].m + (IF ui.handler[s].rdone THEN 1 ELSE 0)
       + Streamed(s - 1)

More == Streamed(MaxSessions) < MaxCallbacks

\* handleSendMessage up to its first await: the guard and addMessage(user).
handleSendMessage(s) ==
  /\ CanInvoke(s)
  /\ ui' = [addMessage(ui, Message(UserText(s), NoReasoning, FALSE))
              EXCEPT !.handler[s].pc = "user"]
  /\ UNCHANGED ConvRest

\* handleEditUserMessage up to its first await: the guard and replaceMessages.
handleEditUserMessage(s) ==
  /\ CanInvoke(s)
  /\ ui' = [addMessage(ui, Message(UserText(s), NoReasoning, FALSE))
              EXCEPT !.handler[s].pc = "user"]
  /\ UNCHANGED ConvRest

\* After the first await of handleSendMessage / handleEditUserMessage: the
\* assistant placeholder is added, up to the second await.
AddPlaceholder(s) ==
  /\ ui.handler[s].pc = "user"
  /\ ui' = At(addMessage(ui, Message(Empty, NoReasoning, FALSE)), s, "placeholder")
  /\ UNCHANGED ConvRest

\* After the second await: startStreaming and the call of sendStreamingMessage.
StartSession(s) ==
  /\ ui.handler[s].pc = "placeholder"
  /\ ui' = At(startStreaming(ui, s), s, "streaming")
  /\ UNCHANGED ConvRest

\* handleRetry has no await before startStreaming.
handleRetry(s) ==
  /\ CanInvoke(s)
  /\ ui.conversations.last.content[1] # "user"
  /\ ui' = [startStreaming(updateLastMessage(ui, Empty, FALSE, NewMetadata), s)
              EXCEPT !.handler[s].pc = "streaming", !.handler[s].retry = TRUE]
  /\ UNCHANGED ConvRest

handleStopGeneration ==
  /\ ui.conversations.present
  /\ isConversationStreaming(ui)
  /\ Room(1)
  /\ ui' = stopStreaming(ui)
  /\ UNCHANGED ConvRest

\* Where a handler is once its session has ended: by the terminal callback of
\* a session that was not cancelled, or "cancelled" when its signal was aborted.
Ended(s, how) == IF ui.signalAborted[s] THEN "cancelled" ELSE how

\* The callbacks of createStreamingCallbacks, invoked by the session's adapter.
OnReasoningChunk(s) ==
  /\ ui.handler[s].pc = "streaming"
  /\ More
  /\ ui.handler[s].m < MaxReason /\ ~ui.handler[s].rdone /\ ui.handler[s].n = 0
  /\ Room(1)
  /\ ui' = [updateLastMessageReasoning(ui, Reason(s, ui.handler[s].m + 1))
              EXCEPT !.handler[s].m = @ + 1]
  /\ UNCHANGED ConvRest

OnReasoningComplete(s) ==
  /\ ui.handler[s].pc = "streaming"
  /\ More
  /\ ui.handler[s].m > 0 /\ ~ui.handler[s].rdone
  /\ Room(1)
  /\ ui' = [markReasoningComplete(ui) EXCEPT !.handler[s].rdone = TRUE]
  /\ UNCHANGED ConvRest

OnChunk(s) ==
  /\ ui.handler[s].pc = "streaming"
  /\ More
  /\ ui.handler[s].n < MaxText
  /\ ui.handler[s].m > 0 => ui.handler[s].rdone
  /\ ui' = [updateLastMessage(ui, Text(s, ui.handler[s].n + 1), FALSE, NoMeta)
              EXCEPT !.handler[s].n = @ + 1]
  /\ UNCHANGED ConvRest

OnComplete(s) ==
  /\ ui.handler[s].pc = "streaming"
  /\ ui.handler[s].m > 0 => ui.handler[s].rdone
  /\ Room(2)
  /\ ui' = At(onComplete(ui, s), s, Ended(s, "complete"))
  /\ UNCHANGED ConvRest

OnError(s) ==
  /\ ui.handler[s].pc = "streaming"
  /\ Room(1)
  /\ ui' = At(onError(ui, s), s, Ended(s, "error"))
  /\ UNCHANGED ConvRest

\* The timers and effects.
ThrottleFires ==
  /\ ui.uiUpdateThrottle # NoThrottle
  /\ Room(1)
  /\ ui' = performUIUpdate([ui EXCEPT !.uiUpdateThrottle = NoThrottle], ui.uiUpdateThrottle)
  /\ UNCHANGED ConvRest

DebounceFires ==
  /\ ui.saveOperations.present
  /\ ui' = [Save(ui, ui.saveOperations.last) EXCEPT !.saveOperations = NoOperation]
  /\ UNCHANGED ConvRest

AbortCleanupFires ==
  /\ ui.abortedConversationIds
  /\ ui' = [ui EXCEPT !.abortedConversationIds = FALSE]
  /\ UNCHANGED ConvRest

RunQueued ==
  /\ ui.stateUpdateQueue # <<>>
  /\ ui' = [Updater(ui, Head(ui.stateUpdateQueue)) EXCEPT !.stateUpdateQueue = Tail(@)]
  /\ UNCHANGED ConvRest

\* deleteConversation up to its await: conversationStorage.delete(id).
deleteConversation ==
  /\ ui.deleting = "idle"
  /\ ui.conversations.present
  /\ ui' = [ui EXCEPT !.storage = NoStored, !.deleting = "awaiting"]
  /\ UNCHANGED ConvRest

\* deleteConversation after the await: stop the stream, filter the state.
DeleteResume ==
  /\ ui.deleting = "awaiting"
  /\ Room(1)
  /\ ui' = SyncRef([(IF isConversationStreaming(ui) THEN stopStreaming(ui) ELSE ui)
                      EXCEPT !.conversations.present = FALSE, !.deleting = "done"])
  /\ UNCHANGED ConvRest

ConvNext ==
  \/ \E s \in SessionIds :
       \/ handleSendMessage(s) \/ handleEditUserMessage(s) \/ AddPlaceholder(s)
       \/ StartSession(s) \/ handleRetry(s)
       \/ OnReasoningChunk(s) \/ OnReasoningComplete(s) \/ OnChunk(s)
       \/ OnComplete(s) \/ OnError(s)
  \/ handleStopGeneration
  \/ ThrottleFires \/ DebounceFires \/ AbortCleanupFires \/ RunQueued
  \/ deleteConversation \/ DeleteResume

SpecConversation == ConvInit /\ [][ConvNext]_vars

(***************************************************************************)
(* The claims.                                                             *)
(***************************************************************************)
Idx(name) == {i \in DOMAIN calls : calls[i].cb = name}

Count(name) == Cardinality(Idx(name))

Settled == pc = "settled"

\* A reasoning delta of the stream was emitted (not the one synthesized on abort).
ReasoningEmitted == \E i \in Idx("onReasoningChunk") : calls[i].d # <<>>

RECURSIVE ConcatDeltas(_, _)
ConcatDeltas(c, name) ==
  IF c = <<>> THEN <<>>
  ELSE (IF Head(c).cb = name THEN Head(c).d ELSE <<>>) \o ConcatDeltas(Tail(c), name)

\* The ways a session ends without an error: transport end and cancellation.
CompletePaths == {"done", "abort_check", "fetch_abort", "read_abort"}

\* The ways a session ends on a failure.
FailurePaths == {"fetch_fail", "http_error", "no_body", "read_fail", "router_catch",
                 "adapter_validation"}

\* C1: however a session started through the router ends, exactly one terminal
\* callback has fired: onComplete calls plus onError calls is 1 once the session
\* has ended, and 0 before.
Thm_C1_ExactlyOneTerminal ==
  Count("onComplete") + Count("onError") = (IF Settled THEN 1 ELSE 0)

\* A session aborted mid-stream, after content was delivered, has ended.
Wit_C1_AbortMidStream ==
  Settled /\ endPath = "read_abort" /\ Count("onChunk") >= 1

\* C2: onComplete is invoked at most once per session, and completeCalled is set
\* exactly when it has been invoked.
Thm_C2_CompleteAtMostOnce ==
  /\ Count("onComplete") <= 1
  /\ loc.completeCalled <=> Count("onComplete") = 1

\* An OpenAI-compatible session that received [DONE] has completed.
Wit_C2_CompletedAfterDone ==
  Settled /\ adapter = "openai" /\ shape = "finished" /\ loc.completeCalled
  /\ Count("onComplete") = 1

\* C3 as stated: a session that ends on a provider error frame or on a non-2xx
\* status has invoked onComplete exactly once.
CE_C3_CompleteOnErrored ==
  (Settled /\ endPath \in {"http_error", "error_frame"}) => Count("onComplete") = 1

\* C3 amended: a session that ends at the transport's end, at the loop's abort
\* check or on an AbortError invokes onComplete exactly once, last, with the
\* content accumulated, and never onError; a session that ends any other way
\* (error frame, non-2xx status, transport failure, validation) invokes onError
\* exactly once, last, and never onComplete.
Thm_C3_CompleteUnlessErrored ==
  Settled =>
    IF endPath \in CompletePaths
    THEN /\ Count("onComplete") = 1 /\ Count("onError") = 0
         /\ calls[Len(calls)].cb = "onComplete"
         /\ calls[Len(calls)].acc = ConcatDeltas(calls, "onChunk")
    ELSE /\ Count("onComplete") = 0 /\ Count("onError") = 1
         /\ calls[Len(calls)].cb = "onError"

\* A session ended on a non-2xx status after the error body was read.
Wit_C3_ErroredByStatus ==
  Settled /\ endPath = "http_error" /\ status = 429 /\ Count("onError") = 1

\* C4: a body of N newline-terminated content-delta frames followed by a finish
\* frame, read to the transport's end, gives N onChunk calls in frame order, each
\* accumulated text the previous one followed by the call's delta, and then one
\* onComplete with the last accumulated text.
Thm_C4_ContentThenComplete ==
  (Settled /\ endPath = "done" /\ shape = "finished") =>
    LET N == sent - 1 IN
    /\ Len(calls) = N + 1
    /\ \A i \in 1..N :
         /\ calls[i].cb = "onChunk"
         /\ calls[i].d = << <<"c", i>> >>
         /\ calls[i].acc = (IF i = 1 THEN <<>> ELSE calls[i - 1].acc) \o calls[i].d
    /\ calls[N + 1].cb = "onComplete"
    /\ calls[N + 1].acc = (IF N = 0 THEN <<>> ELSE calls[N].acc)

\* Two content frames and a finish frame were read to the end.
Wit_C4_TwoContentFrames ==
  Settled /\ endPath = "done" /\ shape = "finished" /\ sent = 3 /\ Count("onChunk") = 2

\* C5 as stated: an onChunk call that comes after a reasoning delta (an image
\* marker counts) has the one onReasoningComplete call before it.
CE_C5_ReasoningCompleteBeforeContent ==
  \A j \in Idx("onChunk") :
    (\E i \in Idx("onReasoningChunk") : i < j) =>
      (\E k \in Idx("onReasoningComplete") : k < j)

CE_C7_AbortNeverError ==
  (Settled /\ aborted) => (Count("onError") = 0 /\ Count("onComplete") = 1)

\* C8: a session cancelled (abort check or AbortError) after a reasoning delta
\* and with no content delta has invoked onReasoningComplete and, after it,
\* onComplete with the empty text.
Thm_C8_AbortMidReasoning ==
  (Settled /\ endPath \in {"abort_check", "read_abort"} /\ ReasoningEmitted
     /\ Count("onChunk") = 0) =>
    \E i \in Idx("onReasoningComplete"), j \in Idx("onComplete") :
      i < j /\ calls[j].acc = <<>>

\* A session was cancelled at the loop's abort check with reasoning still open.
Wit_C8_AbortCheckMidReasoning ==
  Settled /\ endPath = "abort_check" /\ ReasoningEmitted /\ Count("onChunk") = 0
  /\ ~loc.reasoningDone

\* C9 as stated: a session cancelled (abort check or AbortError) with reasoning
\* accumulated and not marked complete ends with the calls
\* onReasoningChunk('', fullReasoning), onReasoningComplete(), onComplete.
CE_C9_SynthesizedOnEveryCancel ==
  (Settled /\ endPath \in {"abort_check", "read_abort"} /\ loc.fullReasoning # <<>>
     /\ ~loc.reasoningDone) =>
    /\ Len(calls) >= 3
    /\ calls[Len(calls) - 2] = Cb("onReasoningChunk", <<>>, loc.fullReasoning, "")
    /\ calls[Len(calls) - 1] = RC
    /\ calls[Len(calls)].cb = "onComplete"

\* C10: the promise the router returns never rejects, it is resolved when the
\* session has ended, and a session that ended on a failure reported it through
\* onError, once and last.
Thm_C10_NoExceptionEscapes ==
  /\ outcome # "rejected"
  /\ Settled => outcome = "resolved"
  /\ (Settled /\ endPath \in FailurePaths) =>
       (Count("onError") = 1 /\ calls[Len(calls)].cb = "onError")

\* The router's own catch block handled a throw of the custom-provider branch.
Wit_C10_RouterCaught ==
  Settled /\ endPath = "router_catch" /\ outcome = "resolved" /\ Count("onError") = 1

\* The built-in cases of the router's switch.
BuiltIn == {"openai", "openrouter", "gemini", "anthropic"}

\* C11: a call with the API key missing, or the model missing, or the message
\* list missing or empty settles within the call's synchronous prefix with onError
\* as its only callback, invoked once with the message of the first failing check
\* in the order key, model, messages; no adapter is started and no request issued.
Thm_C11_ValidationFirstFailure ==
  [][pc = "init" =>
     \A p \in ProviderIds, a \in ApiKeys, m \in Models, ms \in MessageLists,
        cfg \in Configs, cbs \in BOOLEAN :
       (Call(p, a, m, ms, cfg, cbs)
          /\ (a = "missing" \/ m = "missing" \/ ms \in {"missing", "empty"})) =>
         /\ pc' = "settled" /\ outcome' = "resolved"
         /\ posts' = 0 /\ adapter' = "none"
         /\ calls' = <<Cb("onError", <<>>, <<>>,
                          IF a = "missing" THEN "API key is required"
                          ELSE IF m = "missing" THEN "Model is required"
                          ELSE "Messages are required")>>]_vars

\* A call without a model (the key given) was turned down by the router.
Wit_C11_ModelMissing ==
  Settled /\ endPath = "validation" /\ posts = 0
  /\ calls = <<Cb("onError", <<>>, <<>>, "Model is required")>>

\* C12: a call that passes the input checks, with a provider id that is not
\* built in and without a base URL in the custom configuration, invokes onError
\* exactly once and nothing else, starts no adapter, issues no request, and the
\* promise resolves.
Thm_C12_UnknownProvider ==
  [][pc = "init" =>
     \A p \in ProviderIds \ BuiltIn, a \in ApiKeys, m \in Models, ms \in MessageLists,
        cbs \in BOOLEAN :
       (Call(p, a, m, ms, "none", cbs)
          /\ a # "missing" /\ m # "missing" /\ ms \notin {"missing", "empty"}) =>
         /\ pc' = "settled" /\ outcome' = "resolved"
         /\ posts' = 0 /\ adapter' = "none"
         /\ calls' = <<Cb("onError", <<>>, <<>>, "Unknown provider")>>]_vars

\* The router reported an unknown provider.
Wit_C12_UnknownReported ==
  Settled /\ endPath = "unknown_provider" /\ posts = 0 /\ adapter = "none"
  /\ outcome = "resolved" /\ Count("onError") = 1

\* C13 as stated: a session that received an in-band error payload on a 2xx
\* stream (and was not aborted) has invoked onError by the time it ends.
CE_C13_InBandErrorReported ==
  (Settled /\ ~aborted /\ shape \in {"error", "error+"}) => Count("onError") >= 1

\* C15: a body of newline-terminated content frames with one data: line that is
\* not JSON among them, read to the transport's end, gives one onChunk per content
\* frame, in frame order, each accumulated text the previous one followed by the
\* call's delta, never onError, and then onComplete with the last accumulated text;
\* onError is invoked for such a body only when the transport fails.
Thm_C15_CorruptLineSkipped ==
  /\ shape = "corrupt" => (Count("onError") = 0 \/ endPath = "read_fail")
  /\ (Settled /\ endPath = "done" /\ shape = "corrupt") =>
    LET N == sent - 1 IN
    /\ Len(calls) = N + 1
    /\ Count("onError") = 0
    /\ \E k \in 1..sent :
         \A i \in 1..N :
           /\ calls[i].cb = "onChunk"
           /\ calls[i].d = << <<"c", IF i < k THEN i ELSE i + 1>> >>
           /\ calls[i].acc = (IF i = 1 THEN <<>> ELSE calls[i - 1].acc) \o calls[i].d
    /\ calls[N + 1].cb = "onComplete"
    /\ calls[N + 1].acc = (IF N = 0 THEN <<>> ELSE calls[N].acc)

\* The corrupt line was the second of three: the first and the third frame gave
\* their onChunk calls.
Wit_C15_CorruptBetweenTwo ==
  /\ Settled /\ endPath = "done" /\ shape = "corrupt" /\ sent = 3
  /\ Len(calls) = 3
  /\ calls[1].d = << <<"c", 1>> >>
  /\ calls[2] = Cb("onChunk", << <<"c", 3>> >>, << <<"c", 1>>, <<"c", 3>> >>, "")
  /\ calls[3].cb = "onComplete"

\* C20: in the Anthropic adapter, once a frame of type 'error' has arrived after
\* content frames, the session has ended: onError was invoked once, as the last
\* callback, after the onChunk calls of the frames before it; the frames that
\* follow it in the chunk produced nothing, and no later chunk is read.
Thm_C20_AnthropicErrorEnds ==
  (adapter = "anthropic" /\ shape \in {"error", "error+"}) =>
    /\ Settled /\ endPath = "error_frame"
    /\ Len(calls) >= 1 /\ Len(calls) <= sent
    /\ (shape = "error+" <=> Len(calls) < sent)
    /\ calls[Len(calls)].cb = "onError"
    /\ Count("onError") = 1
    /\ \A i \in 1..(Len(calls) - 1) :
         calls[i].cb = "onChunk" /\ calls[i].d = << <<"c", i>> >>

\* A content frame, then an error frame and one more frame in the same chunk.
Wit_C20_FrameAfterError ==
  adapter = "anthropic" /\ shape = "error+" /\ Settled /\ Len(calls) = 2 /\ sent = 3

\* C14 as stated: a session that ends on a non-2xx status has invoked onError
\* once, with the message chosen for the status, and nothing else; it read no
\* chunk of the body and issued exactly one POST.
CE_C14_StatusMessageOnly ==
  (Settled /\ endPath = "http_error") =>
    /\ posts = 1 /\ sent = 0
    /\ Len(calls) = 1 /\ calls[1].cb = "onError"
    /\ \E m \in {"", "message of the provider"}, ra \in BOOLEAN :
         calls[1].msg = StatusMessage(status, m, ra)

\* C17: every step of the read loop that leaves the signal aborted either is the
\* abort itself, which processes nothing, or ends the session: once the signal is
\* aborted the loop processes the frames of at most one chunk, the one in flight,
\* and starts no further read.
Thm_C17_AtMostOneChunkAfterAbort ==
  [][(pc = "read" /\ aborted') =>
       \/ pc' = "settled"
       \/ (~aborted /\ UNCHANGED <<pc, calls, loc, buffer, sent>>)]_vars

\* The loop's abort check ended a session after a chunk with content was processed.
Wit_C17_AbortCheckAfterChunk ==
  Settled /\ aborted /\ endPath = "abort_check" /\ sent >= 2 /\ Count("onChunk") >= 1

\* C19 as stated: in the OpenAI-compatible adapter, when a chunk is processed, no
\* line that comes after a [DONE] line invokes a callback.
CE_C19_NothingAfterDone ==
  [][(pc = "read" /\ adapter = "openai") =>
       \A chunk \in Chunks(adapter, MaxFrames - sent, MaxOdd - odd), raise \in BOOLEAN :
         ReadChunk(chunk, raise) =>
           LET sp == SplitLines(buffer \o Decode(chunk, sent))
               r == RunLines(adapter, sp.lines, loc, calls, rcb, 1)
           IN \A i \in DOMAIN sp.lines :
                PayloadOf(sp.lines[i]) = "DONE" => (\A j \in r.fired : j < i)]_vars

\* The bytes of the payload delivered so far.
Delivered == SubSeq(dec.whole, 1, Len(dec.whole) - Len(dec.rest))

\* C16: whatever the split of a payload into chunks, the lines split off so far
\* and the fragment retained are those that feeding the bytes delivered so far in
\* a single chunk gives; at the end of the payload, those of the whole payload.
Thm_C16_ChunkingIndependent ==
  LET one == Utf8Decode(<<>>, Delivered)
      sp == SplitLines(one.out)
  IN dec.lines = sp.lines /\ buffer = sp.buffer /\ dec.pending = one.pending

\* A payload of two lines, the first holding a two-byte character, was delivered
\* byte by byte: the character and the line were put together across chunks.
Wit_C16_SplitCharacterAndLine ==
  /\ dec.whole = <<"hi", "lo", "LF", "a">> /\ dec.rest = <<>> /\ dec.chunks = 4
  /\ dec.lines = << <<Ch("e2")>> >> /\ buffer = <<Ch("a")>>

\* What call i gives when it runs alone on the chunks it received.
AloneResult(i) ==
  LET x == Alone(ses[i].adapter, <<>>, InitLoc, <<>>, ses[i].recv, 0)
  IN IF ses[i].pc = "settled"
     THEN LET e == EndOf(x.loc, x.calls, ses[i].end)
          IN [buffer |-> x.buffer, loc |-> e.loc, calls |-> e.calls]
     ELSE x

\* C18: with the chunks of two sessions interleaved in any order, each session's
\* callbacks (with their arguments), its accumulated content and reasoning, its
\* reasoning-closed and completion-fired flags, its block type and its buffer are
\* those of the session run alone on the chunks it received.
Thm_C18_SessionsIndependent ==
  \A i \in DOMAIN ses :
    LET a == AloneResult(i)
    IN ses[i].calls = a.calls /\ ses[i].loc = a.loc /\ ses[i].buffer = a.buffer

\* Two sessions of different adapters, each of which received a chunk while the
\* other was in the middle of its stream, both ended with content delivered.
Wit_C18_Interleaved ==
  /\ ses # NoSes
  /\ \A i \in Sessions : ses[i].pc = "settled" /\ ses[i].overlap
                           /\ ses[i].loc.fullContent # <<>>
  /\ ses[1].adapter = "openai" /\ ses[2].adapter = "anthropic"
  /\ ses[1].loc.fullReasoning # <<>>

\* The lines of the sequence of C21.
ThinkThenText == <<"start_thinking", "delta", "stop", "start_text", "delta", "noop">>

\* C21 as stated: in the Anthropic adapter (reasoning callbacks given), every
\* content_block_stop of a thinking block emits onReasoningComplete.
CE_C21_StopAlwaysCompletes ==
  [][(pc = "read" /\ adapter = "anthropic" /\ rcb /\ loc.currentBlockType = "thinking"
        /\ FeedLine("stop")) => calls' = Append(calls, RC)]_vars

\* C21 amended: in the Anthropic adapter with the reasoning callbacks given, a
\* text_delta gives onReasoningChunk with the grown reasoning when the open block is
\* thinking, and otherwise onChunk with the grown content, after
\* onReasoningComplete when reasoning had accumulated and was not closed; a
\* content_block_stop resets the block type and emits onReasoningComplete exactly
\* when the block was thinking, reasoning had accumulated and was not closed; and
\* the lines start(thinking), delta, stop, start(text), delta, message_stop read to
\* the end of the stream give exactly onReasoningChunk, onReasoningComplete,
\* onChunk, onComplete.
Thm_C21_RoutedByOpenBlock ==
  /\ [][(pc = "read" /\ adapter = "anthropic" /\ rcb) =>
         LET open == loc.fullReasoning # <<>> /\ ~loc.reasoningDone
             r == << <<"r", sent + 1>> >>
             t == << <<"c", sent + 1>> >>
         IN /\ FeedLine("delta") =>
                 IF loc.currentBlockType = "thinking"
                 THEN calls' = Append(calls, Cb("onReasoningChunk", r, loc.fullReasoning \o r, ""))
                 ELSE calls' = (IF open THEN Append(calls, RC) ELSE calls)
                                \o <<Cb("onChunk", t, loc.fullContent \o t, "")>>
            /\ FeedLine("stop") =>
                 /\ loc'.currentBlockType = "null"
                 /\ calls' = (IF loc.currentBlockType = "thinking" /\ open
                              THEN Append(calls, RC) ELSE calls)]_vars
  /\ []((Settled /\ adapter = "anthropic" /\ rcb /\ fed = ThinkThenText) =>
          calls = <<Cb("onReasoningChunk", << <<"r", 2>> >>, << <<"r", 2>> >>, ""),
                    RC,
                    Cb("onChunk", << <<"c", 5>> >>, << <<"c", 5>> >>, ""),
                    Cb("onComplete", <<>>, << <<"c", 5>> >>, "")>>)

\* The six lines of the sequence were read and the stream ended.
Wit_C21_ThinkThenText ==
  Settled /\ adapter = "anthropic" /\ rcb /\ fed = ThinkThenText /\ endPath = "done"
  /\ Len(calls) = 4

\* C22 as stated: in a Gemini session started through the router, every line
\* whose part carries a thought field gives an onReasoningChunk call with the
\* text of that part.
CE_C22_GeminiThoughtIsReasoning ==
  [][(pc = "read" /\ adapter = "gemini") =>
       \A chunk \in Chunks(adapter, MaxFrames - sent, MaxOdd - odd), raise \in BOOLEAN :
         ReadChunk(chunk, raise) =>
           LET sp == SplitLines(buffer \o Decode(chunk, sent))
           IN \A i \in DOMAIN sp.lines :
                PayloadOf(sp.lines[i]) = "thought" =>
                  \E j \in DOMAIN calls' :
                    /\ calls'[j].cb = "onReasoningChunk"
                    /\ calls'[j].d = << <<"r", FrameNo(sp.lines[i])>> >>]_vars

\* The non-system messages of a list, in order, and the text with a given piece.
RECURSIVE NonSystem(_)
NonSystem(ms) ==
  IF ms = <<>> THEN <<>>
  ELSE (IF Head(ms).role = "system" THEN <<>> ELSE <<Head(ms)>>) \o NonSystem(Tail(ms))

Occurs(x, text) == \E i \in DOMAIN text : text[i] = x

\* C23 as stated: the contents are the non-system messages in their order, with
\* assistant mapped to model and every other role to user, and the text of every
\* system message is in the text of the first user entry, before a blank line and
\* that entry's own text.
CE_C23_SystemNeverLost ==
  req.built =>
    LET ns == NonSystem(req.messages)
        c == req.contents
        users == {j \in DOMAIN c : c[j].role = "user"}
    IN /\ Len(c) = Len(ns)
       /\ \A j \in DOMAIN c :
            /\ c[j].role = (IF ns[j].role = "assistant" THEN "model" ELSE "user")
            /\ Occurs(ns[j].content[1], c[j].text)
       /\ \A i \in DOMAIN req.messages :
            (req.messages[i].role = "system" /\ users # {}) =>
              LET u == CHOOSE j \in users : \A k \in users : j <= k
              IN /\ Occurs(T(i), c[u].text)
                 /\ Len(c[u].text) >= 3
                 /\ SubSeq(c[u].text, Len(c[u].text) - 1, Len(c[u].text)) = <<Blank>> \o ns[u].content

\* C24 as stated: the base URL passed to the adapter ends neither with a slash nor
\* with /chat/completions, and cleaning it up again leaves it unchanged.
CE_C24_BaseUrlNormalized ==
  url.done =>
    /\ ~EndsWith(url.baseUrl, <<"/">>)
    /\ ~EndsWith(url.baseUrl, <<"/", "cc">>)
    /\ NormalizeBaseUrl(url.baseUrl) = url.baseUrl

\* The text the lines fed accumulate in the OpenAI-compatible adapter: per line,
\* its content text and then the markers of its images that have a url.
RECURSIVE ExpectedText(_, _)
ExpectedText(kinds, i) ==
  IF i > Len(kinds) THEN <<>>
  ELSE (CASE kinds[i] = "c" -> << <<"c", i>> >>
          [] kinds[i] = "img" -> << <<"img", i>> >>
          [] kinds[i] = "cimg" -> << <<"c", i>>, <<"img1", i>>, <<"img3", i>>, <<"img4", i>> >>
          [] OTHER -> <<>>)
       \o ExpectedText(kinds, i + 1)

Thm_C26_CompleteOnlyAfterLoop ==
  /\ Count("onComplete") >= 1 => (Settled /\ endPath \in CompletePaths)
  /\ pc \in {"init", "fetch", "errbody", "read"} => Count("onComplete") = 0

\* Content frames and then a finish frame ([DONE], finish_reason, message_stop,
\* finishReason) were processed, and the session still awaits the transport.
Wit_C26_ReadingAfterFinish ==
  pc = "read" /\ shape = "finished" /\ sent >= 2 /\ Count("onChunk") >= 1
  /\ Count("onComplete") = 0

\* C27 as stated: in the OpenAI-compatible adapter the lines of a chunk give the
\* same calls, locals and control whether or not the finish_reason frames are
\* among them: a frame that carries only a finish reason changes nothing and
\* causes no other frame to be skipped.
CE_C27_FinishReasonIsNoOp ==
  [][(pc = "read" /\ adapter = "openai") =>
       \A chunk \in Chunks(adapter, MaxFrames - sent, MaxOdd - odd), raise \in BOOLEAN :
         ReadChunk(chunk, raise) =>
           LET sp == SplitLines(buffer \o Decode(chunk, sent))
               without == SelectSeq(sp.lines, LAMBDA ln : PayloadOf(ln) # "fin")
               r == RunLines(adapter, sp.lines, loc, calls, rcb, 1)
               q == RunLines(adapter, without, loc, calls, rcb, 1)
           IN r.calls = q.calls /\ r.loc = q.loc /\ r.ctl = q.ctl]_vars

\* C28: a terminal callback (onComplete or onError) is the last callback of the
\* session: no onChunk, onReasoningChunk or onReasoningComplete comes after it, and
\* once it has been invoked the session has ended and processes nothing more.
Thm_C28_NothingAfterTerminal ==
  /\ [](\A i \in Idx("onComplete") \cup Idx("onError") : i = Len(calls) /\ Settled)
  /\ [][Settled => UNCHANGED <<calls, loc, pc>>]_vars

\* A session read reasoning only, to the end of the stream: the reasoning was
\* closed after the loop and onComplete came last.
Wit_C28_CompleteAfterFinalize ==
  /\ Settled /\ endPath = "done" /\ ReasoningEmitted /\ Count("onChunk") = 0
  /\ Len(calls) >= 3
  /\ calls[Len(calls) - 1] = RC
  /\ calls[Len(calls)].cb = "onComplete"

\* C29 as stated: no onReasoningChunk call comes after the onReasoningComplete call
\* of the session.
CE_C29_NoReasoningAfterComplete ==
  \A i \in Idx("onReasoningComplete"), j \in Idx("onReasoningChunk") : j < i

\* The pieces of a chunk delivered one per read instead: the loop body runs once
\* per piece, until the function returns.
RECURSIVE Piecewise(_, _, _, _, _, _, _)
Piecewise(ad, buf, l, c, cb, chunk, base) ==
  IF chunk = <<>> THEN [buffer |-> buf, loc |-> l, calls |-> c, ctl |-> "next"]
  ELSE LET sp == SplitLines(buf \o Decode(<<Head(chunk)>>, base))
           r == RunLines(ad, sp.lines, l, c, cb, 1)
       IN IF r.ctl = "return"
          THEN [buffer |-> sp.buffer, loc |-> r.loc, calls |-> r.calls, ctl |-> "return"]
          ELSE Piecewise(ad, sp.buffer, r.loc, r.calls, cb, Tail(chunk), base + 1)

\* C30 as stated: without an abort, a chunk gives the callbacks, the locals and the
\* retained fragment that its pieces give when the transport delivers them in
\* separate chunks, for every adapter.
CE_C30_CallbacksIgnoreChunking ==
  [][(pc = "read" /\ ~aborted) =>
       \A chunk \in Chunks(adapter, MaxFrames - sent, MaxOdd - odd) :
         ReadChunk(chunk, FALSE) =>
           LET sp == SplitLines(buffer \o Decode(chunk, sent))
               r == RunLines(adapter, sp.lines, loc, calls, rcb, 1)
               q == Piecewise(adapter, buffer, loc, calls, rcb, chunk, sent)
           IN r.calls = q.calls /\ r.loc = q.loc /\ r.ctl = q.ctl
              /\ (r.ctl # "return" => sp.buffer = q.buffer)]_vars

\* C31 as stated: when the session has ended by the reader's done, no data: line of
\* the received bytes is left unprocessed in the buffer.
CE_C31_NoLineLeftAtEnd ==
  (Settled /\ endPath = "done") => buffer = <<>>

\* Sessions and handlers of the conversation.
Streaming(s) == ui.handler[s].pc = "streaming"
Over(s) == ui.handler[s].pc \in {"complete", "error", "cancelled"}
Idle(s) == ui.handler[s].pc = "idle"
Quiet == ui.stateUpdateQueue = <<>> /\ ui.uiUpdateThrottle = NoThrottle
Kept == ui.conversations.present /\ ui.deleting = "idle"

\* C32: at most one stream session is active per conversation: no two sessions
\* of the conversation are streaming, neither of them cancelled, at the same
\* time.
CE_C32_OneSessionPerConversation ==
  Cardinality({s \in SessionIds : Streaming(s) /\ ~ui.signalAborted[s]}) <= 1

\* C33: the terminal callback of a session stops only its own stream: when a
\* session ends while the conversation's controller belongs to a later session
\* that is streaming, that controller is not aborted and stays registered, and
\* the conversation stays marked streaming.
CE_C33_StopsOnlyOwnStream ==
  [][\A a, b \in SessionIds :
       (a # b /\ Streaming(a) /\ Streaming(b) /\ ui.abortControllers = b
        /\ ~ui.signalAborted[b] /\ ui.streamingConversationIds
        /\ ui'.handler[a].pc \in {"complete", "error", "cancelled"})
       => (ui'.abortControllers = b /\ ~ui'.signalAborted[b]
           /\ ui'.streamingConversationIds)]_vars

\* C34: the update of an onChunk or onReasoningChunk callback is taken (left
\* pending in the throttle, or queued) exactly when the session that delivers it
\* has not been aborted, whatever the aborted flag of the conversation is at
\* that moment.
CE_C34_UpdatesFollowTheSession ==
  [][\A s \in SessionIds :
       /\ (Streaming(s) /\ ui'.handler[s].n = ui.handler[s].n + 1)
            => ((ui'.uiUpdateThrottle.content = Text(s, ui'.handler[s].n))
                <=> ~ui.signalAborted[s])
       /\ (Streaming(s) /\ ui'.handler[s].m = ui.handler[s].m + 1)
            => ((ui'.stateUpdateQueue # ui.stateUpdateQueue) <=> ~ui.signalAborted[s])]_vars

\* C35: once the only session of the conversation has ended with onError,
\* without having been cancelled, and no update is pending or queued any more,
\* the content of the last message is 'Error: ' followed by the error's message.
CE_C35_ErrorTextShown ==
  \A s \in SessionIds :
    (ui.handler[s].pc = "error" /\ (\A t \in SessionIds \ {s} : Idle(t)) /\ Kept /\ Quiet)
    => ui.conversations.last.content = ErrorText(s)

\* C36: once a session that was not cancelled has completed with onComplete,
\* every earlier session of the conversation has ended, no later one has been
\* started and no update is pending or queued any more, the content of the
\* last message is the final text of that session, and so is the content of
\* the conversation last saved to storage.
CE_C36_FinalTextApplied ==
  \A s \in SessionIds :
    (/\ ui.handler[s].pc = "complete"
     /\ \A t \in SessionIds : (t < s => Over(t)) /\ (t > s => Idle(t))
     /\ Kept /\ Quiet)
    => /\ ui.conversations.last.content = Text(s, ui.handler[s].n)
       /\ ui.storage.last.content = Text(s, ui.handler[s].n)

\* C37: once the only session of the conversation has streamed reasoning and
\* completed with onComplete, without having been cancelled, and no update is
\* pending or queued any more, the reasoning of the last message is the full
\* reasoning the adapter accumulated.
CE_C37_ReasoningKept ==
  \A s \in SessionIds :
    (/\ ui.handler[s].pc = "complete" /\ ui.handler[s].m > 0
     /\ \A t \in SessionIds \ {s} : Idle(t)
     /\ Kept /\ Quiet)
    => ui.conversations.last.reasoning = Reason(s, ui.handler[s].m)

\* The conversation context under the scheduling the claims assume: the
\* transport of every session eventually ends or fails (its adapter then
\* invokes onComplete or onError), and queued updaters are eventually run.
SpecConversationFair ==
  /\ ConvInit /\ [][ConvNext]_vars
  /\ WF_vars(RunQueued)
  /\ \A s \in SessionIds : WF_vars(OnComplete(s) \/ OnError(s))

\* C38: whenever the conversation is marked streaming, it is later not marked
\* streaming and has no AbortController entry.
Thm_C38_StreamingEnds ==
  (ui.streamingConversationIds = TRUE)
    ~> (ui.streamingConversationIds = FALSE /\ ui.abortControllers = 0)

\* A session was started by startStreaming, its terminal callback has run and
\* the conversation is neither marked streaming nor has a controller entry.
Wit_C38_StoppedAfterStreaming ==
  \E s \in SessionIds :
    /\ Over(s)
    /\ \A t \in SessionIds \ {s} : Idle(t)
    /\ ui.streamingConversationIds = FALSE /\ ui.abortControllers = 0

\* C39: once deleteConversation has removed the stored conversation, no save
\* of a queued updater and no debounced save (a step of the update queue or of
\* a timer, not of a handler) stores it again.
CE_C39_DeleteIsFinal ==
  [][(ui.deleting # "idle" /\ ~ui.storage.present /\ ui'.handler = ui.handler)
       => ~ui'.storage.present]_vars

====
